---- MODULE Spec2Model ----
(***************************************************************************)
(* Quick Clips: the ClipboardSlot action of the Stream Deck plugin.        *)
(*                                                                         *)
(* A text is a sequence of one-character strings.  An optional field of    *)
(* the settings object is the empty tuple when it is undefined and a       *)
(* one-element tuple holding the text when it is set.                      *)
(*                                                                         *)
(* The handlers are async functions.  A handler is suspended where it      *)
(* awaits a reply from outside the process: getSettings (a reply of the    *)
(* host), pbpaste, pbcopy and osascript (child processes).  Timer          *)
(* callbacks and other handlers run while it is suspended.  The commands   *)
(* sent to the host (setSettings, setTitle, setState, setImage, showOk)    *)
(* wait for no reply: they take effect in the order they are sent, and     *)
(* the handler goes on in the same turn of the event loop.  One action of  *)
(* this module is one turn of the event loop.                              *)
(***************************************************************************)
EXTENDS Integers, Sequences, FiniteSets, TLC

\* Presses handled per context in one run: bounds the tracker objects created.
MaxPress == 2

\* Cap of the observation counters (acknowledgments, paste invocations, titles).
MaxCount == 2

\* The longest text of single-spaced words given to generateLabel.
MaxLen == 16

\* The longest text given to generateLabel that has any whitespace anywhere.
MaxRaw == 7

Ctx == {"A", "B"}

\* The buttons that receive events in Spec; the other contexts stay as created.
Main == {"A"}

---------------------------------------------------------------------------
\* Texts

None == <<>>

Some(t) == <<t>>

\* JS truthiness of an optional string: undefined and "" are falsy.
Truthy(o) == o # None /\ o[1] # <<>>

\* A capture that stores whatever readClipboard returned, the empty string
\* included.
TruthyTextAlways(t) == TRUE

\* JS truthiness of a string.
TruthyText(t) == t # <<>>

IsWS(ch) == ch \in {" ", "\n", "\t", "\r"}

Min2(a, b) == IF a <= b THEN a ELSE b

SetMax(S) == CHOOSE x \in S : \A y \in S : y <= x

RECURSIVE TrimLeft(_)
TrimLeft(s) == IF s # <<>> /\ IsWS(Head(s)) THEN TrimLeft(Tail(s)) ELSE s

RECURSIVE TrimRight(_)
TrimRight(s) ==
    IF s # <<>> /\ IsWS(s[Len(s)]) THEN TrimRight(SubSeq(s, 1, Len(s) - 1)) ELSE s

\* String.prototype.trim
Trim(s) == TrimRight(TrimLeft(s))

\* text.replace(/\s+/g, ' ')
RECURSIVE CollapseWS(_)
CollapseWS(s) ==
    IF s = <<>> THEN <<>>
    ELSE IF IsWS(Head(s)) THEN <<" ">> \o CollapseWS(TrimLeft(Tail(s)))
    ELSE <<Head(s)>> \o CollapseWS(Tail(s))

\* String.prototype.lastIndexOf(ch, from), 0-based, -1 when absent.
LastIndexOf(s, ch, from) ==
    LET cand == {i \in 0..Min2(from, Len(s) - 1) : s[i + 1] = ch}
    IN  IF cand = {} THEN -1 ELSE SetMax(cand)

\* String.prototype.substring(a, b), 0-based, end exclusive.
Substring(s, a, b) == SubSeq(s, Min2(a, Len(s)) + 1, Min2(b, Len(s)))

\* substring(a + 1): the character at the break point is always dropped.
SubstringFromNext(s, a) == Substring(s, a + 1, Len(s))

SubstringFrom(s, a) == Substring(s, a, Len(s))

Ellipsis == "<ellipsis>"

maxCharsPerLine == 7

maxLines == 2

maxTotalChars == maxCharsPerLine * maxLines

line2MaxChars == maxCharsPerLine - 1

CleanText(text) == Trim(CollapseWS(text))

\* The break point without the "breakPoint < 3" test: any space at or before
\* index 7 is taken.
BreakPointAnySpace(cleanText) ==
    LET breakPoint == LastIndexOf(cleanText, " ", maxCharsPerLine)
    IN  IF breakPoint = -1 THEN maxCharsPerLine ELSE breakPoint

BreakPoint(cleanText) ==
    LET breakPoint == LastIndexOf(cleanText, " ", maxCharsPerLine)
    IN  IF breakPoint = -1 \/ breakPoint < 3 THEN maxCharsPerLine ELSE breakPoint

\* Line 2 of a long text left as it is.
TruncateLine2Whole(remainingText) == remainingText

TruncateLine2(remainingText) ==
    IF Len(remainingText) > line2MaxChars
    THEN LET line2Break == LastIndexOf(remainingText, " ", line2MaxChars)
         IN  IF line2Break > 3
             THEN Trim(Substring(remainingText, 0, line2Break))
             ELSE Substring(remainingText, 0, line2MaxChars)
    ELSE remainingText

\* The label of the proof-of-concept README: the text itself up to 40
\* characters, its first 16 characters and an ellipsis beyond.
generateLabelPoc(text) ==
    IF Len(text) > 40 THEN SubSeq(text, 1, 16) \o <<Ellipsis>> ELSE text

\* generateLabel with "cleanText.length < maxCharsPerLine" as its first test.
generateLabelStrict(text) ==
    LET cleanText == CleanText(text)
        breakPoint == BreakPoint(cleanText)
        line1 == Trim(Substring(cleanText, 0, breakPoint))
        rest == Trim(SubstringFrom(cleanText, breakPoint))
    IN  IF Len(cleanText) < maxCharsPerLine THEN cleanText
        ELSE IF Len(cleanText) <= maxTotalChars THEN line1 \o <<"\n">> \o rest
        ELSE line1 \o <<"\n">> \o TruncateLine2(rest) \o <<Ellipsis>>

generateLabel(text) ==
    LET cleanText == CleanText(text)
        breakPoint == BreakPoint(cleanText)
        line1 == Trim(Substring(cleanText, 0, breakPoint))
        rest == Trim(SubstringFrom(cleanText, breakPoint))
    IN  IF Len(cleanText) <= maxCharsPerLine THEN cleanText
        ELSE IF Len(cleanText) <= maxTotalChars THEN line1 \o <<"\n">> \o rest
        ELSE line1 \o <<"\n">> \o TruncateLine2(rest) \o <<Ellipsis>>

---------------------------------------------------------------------------
\* Settings, display

EmptyTitle == <<"E", "m", "p", "t", "y">>

StoredTitle == <<"S", "t", "o", "r", "e", "d">>

HoldTitle ==
    <<"R", "e", "l", "e", "a", "s", "e", "\n", "t", "o", " ", "C", "l", "e", "a", "r">>

HelloWorld == <<"H", "e", "l", "l", "o", " ", "W", "o", "r", "l", "d">>

Blank == <<" ">>

\* What the clipboard can hold: nothing, an ordinary text, a text of whitespace.
ClipTexts == {<<>>, HelloWorld, Blank}

\* SlotSettings: value, label, suppressClear.
EmptySlot == [value |-> None, label |-> None, suppressClear |-> FALSE]

\* handleClear with label: undefined left out.
ClearedSettingsKeepLabel(s) == [s EXCEPT !.value = None]

\* { ...settings, value: undefined, label: undefined } of handleClear
ClearedSettings(s) == [s EXCEPT !.value = None, !.label = None]

\* onSendToPlugin refusing to clear a slot that has suppressClear set.
ClearSlotSettingsUnlessLocked(s) ==
    IF s.suppressClear THEN s ELSE [s EXCEPT !.value = None, !.label = None]

\* { ...settings, value: undefined, label: undefined } of onSendToPlugin
ClearSlotSettings(s) == [s EXCEPT !.value = None, !.label = None]

\* handleClick storing the whitespace-normalized text instead of the text read.
CapturedSettingsNormalized(s, clipboardText) ==
    [s EXCEPT !.value = Some(CleanText(clipboardText)),
              !.label = Some(generateLabel(clipboardText))]

\* { ...settings, value: clipboardText, label: generateLabel(clipboardText) }
CapturedSettings(s, clipboardText) ==
    [s EXCEPT !.value = Some(clipboardText), !.label = Some(generateLabel(clipboardText))]

\* The settings a host can hold for a button when the plugin process starts:
\* a slot as created, or what an earlier session captured, locked or not.
ValidSlots ==
    {[EmptySlot EXCEPT !.suppressClear = l] : l \in BOOLEAN}
    \cup {CapturedSettings([EmptySlot EXCEPT !.suppressClear = l], t) :
              l \in BOOLEAN, t \in {x \in ClipTexts : TruthyText(x)}}

\* updateDisplay without the fallback title: a filled slot always shows its
\* label.
DisplayOfLabelOnly(s) ==
    IF s.value # None
    THEN [title |-> s.label[1],
          state |-> 1,
          image |-> IF s.suppressClear THEN "locked" ELSE "undefined"]
    ELSE [title |-> EmptyTitle,
          state |-> 0,
          image |-> IF s.suppressClear THEN "empty-locked" ELSE "undefined"]

\* updateDisplay with a lock icon for the filled slot only: a locked empty slot
\* keeps the default icon of its state.
DisplayOfFilledLockOnly(s) ==
    IF Truthy(s.value)
    THEN [title |-> IF Truthy(s.label) THEN s.label[1] ELSE StoredTitle,
          state |-> 1,
          image |-> IF s.suppressClear THEN "locked" ELSE "undefined"]
    ELSE [title |-> EmptyTitle,
          state |-> 0,
          image |-> "undefined"]

\* updateDisplay: the title, the state and the image it sends.
DisplayOf(s) ==
    IF Truthy(s.value)
    THEN [title |-> IF Truthy(s.label) THEN s.label[1] ELSE StoredTitle,
          state |-> 1,
          image |-> IF s.suppressClear THEN "locked" ELSE "undefined"]
    ELSE [title |-> EmptyTitle,
          state |-> 0,
          image |-> IF s.suppressClear THEN "empty-locked" ELSE "undefined"]

---------------------------------------------------------------------------
\* Hold trackers

\* A tracker object: timer is "null", or a timeout that is "armed", "fired"
\* or "cleared".  shown counts the hold titles its callback has sent and
\* locked records settings.suppressClear as onKeyDown read it; the code reads
\* neither.
NoTracker == [timer |-> "null", clearMode |-> FALSE, shown |-> 0, locked |-> FALSE]

\* onKeyDown without its suppressClear branch: the timer is always armed.
NewTrackerAlwaysArmed(s) ==
    [timer |-> "armed", clearMode |-> FALSE, shown |-> 0, locked |-> s.suppressClear]

\* The tracker onKeyDown installs.
NewTracker(s) ==
    IF s.suppressClear
    THEN [timer |-> "null", clearMode |-> FALSE, shown |-> 0, locked |-> TRUE]
    ELSE [timer |-> "armed", clearMode |-> FALSE, shown |-> 0, locked |-> FALSE]

\* A release that leaves the timer running.
ClearTimeoutNoop(t) == t

\* clearTimeout(tracker.timer) when tracker.timer is set.
ClearTimeout(t) == IF t.timer = "armed" THEN [t EXCEPT !.timer = "cleared"] ELSE t

\* A callback that sends the hold title and leaves clearMode as it was.
TimerCallbackNoFlag(t) ==
    [t EXCEPT !.timer = "fired", !.shown = Min2(t.shown + 1, MaxCount)]

\* The setTimeout callback: tracker.clearMode = true, then the hold title.
TimerCallback(t) ==
    [t EXCEPT !.timer = "fired", !.clearMode = TRUE,
              !.shown = Min2(t.shown + 1, MaxCount)]

\* A release that takes every tracker for a confirmed hold.
ReleaseBranchAlwaysClear(t) == "clear"

\* onKeyUp: clear when the tracker is in clear mode, click otherwise.
ReleaseBranch(t) == IF t.clearMode THEN "clear" ELSE "click"

---------------------------------------------------------------------------
\* State

VARIABLES
    settings,      \* host: the persisted settings of each context
    clipboard,     \* the system clipboard
    title,         \* host: the title last set on each button
    vstate,        \* host: the state last set on each button
    image,         \* host: the image last set on each button
    holdTrackers,  \* the Map: the tracker of each context, 0 when it has none
    trk,           \* the tracker objects, by context and press number
    presses,       \* the presses delivered for each context
    kd,            \* onKeyDown in flight
    ku,            \* onKeyUp in flight, and the outcome of the last one
    ap,            \* onWillAppear in flight
    cl             \* onSendToPlugin in flight, and the outcome of the last one

vars == <<settings, clipboard, title, vstate, image, holdTrackers, trk, presses,
          kd, ku, ap, cl>>

host == <<settings, title, vstate, image>>

display == <<title, vstate, image>>

table == <<holdTrackers, trk>>

\* onKeyUp of a context: where it is suspended, the tracker it looked up, the
\* settings it read; branch, read (what readClipboard returned), acks (showOk
\* calls) and pastes (simulatePaste calls) record what this release has done,
\* err which external command failed ("write" for pbcopy, "paste" for
\* osascript), and early whether the timer of the tracker had not yet run
\* when the release was delivered.
KuIdle ==
    [pc |-> "idle", tracker |-> 0, s |-> EmptySlot, branch |-> "none",
     read |-> None, acks |-> 0, pastes |-> 0, err |-> "none", early |-> FALSE]

\* onSendToPlugin of a context: where it is suspended, the settings it read,
\* and acks (showOk calls).
ClIdle == [pc |-> "idle", s |-> EmptySlot, acks |-> 0]

Init ==
    /\ settings \in {f \in [Ctx -> ValidSlots] : \A c \in Ctx \ Main : f[c] = EmptySlot}
    /\ clipboard \in ClipTexts
    /\ title = [c \in Ctx |-> <<>>]
    /\ vstate = [c \in Ctx |-> 0]
    /\ image = [c \in Ctx |-> "undefined"]
    /\ holdTrackers = [c \in Ctx |-> 0]
    /\ trk = [c \in Ctx |-> [i \in 1..MaxPress |-> NoTracker]]
    /\ presses = [c \in Ctx |-> 0]
    /\ kd = [c \in Ctx |-> "idle"]
    /\ ku = [c \in Ctx |-> KuIdle]
    /\ ap = [c \in Ctx |-> "idle"]
    /\ cl = [c \in Ctx |-> ClIdle]

\* An updateDisplay that sends the title and the state and leaves the image.
RenderWithoutImage(c, s) ==
    /\ title' = [title EXCEPT ![c] = DisplayOf(s).title]
    /\ vstate' = [vstate EXCEPT ![c] = DisplayOf(s).state]
    /\ image' = image

\* updateDisplay(ev, s): setTitle, setState, setImage.
Render(c, s) ==
    /\ title' = [title EXCEPT ![c] = DisplayOf(s).title]
    /\ vstate' = [vstate EXCEPT ![c] = DisplayOf(s).state]
    /\ image' = [image EXCEPT ![c] = DisplayOf(s).image]

\* ev.action.showOk()
ShowOk(r) == [r EXCEPT !.acks = Min2(r.acks + 1, MaxCount)]

\* onKeyUp has returned: the record keeps what the release did.
KuDone(r, b) == [r EXCEPT !.pc = "done", !.branch = b]

\* onSendToPlugin ending with ev.action.showOk(), as handleClear does.
ClearSlotDoneWithOk(r) == [ShowOk(r) EXCEPT !.pc = "done"]

\* The end of onSendToPlugin for clearSlot: a log line, no showOk.
ClearSlotDone(r) == [r EXCEPT !.pc = "done"]

\* A release without a tracker that still ends with ev.action.showOk().
NoTrackerReturnWithOk(r) == KuDone(ShowOk(r), "notracker")

\* if (!tracker) return: onKeyUp ends at once.
NoTrackerReturn(r) == KuDone(r, "notracker")

\* this.holdTrackers.clear(): the entries of all contexts go.
DeleteAll(c) == holdTrackers' = [d \in Ctx |-> 0]

\* this.holdTrackers.delete(contextId)
Delete(c) == holdTrackers' = [holdTrackers EXCEPT ![c] = 0]

\* clearTimeout on the tracker object i of context c.
TrkClearTimeout(c, i) == [trk EXCEPT ![c][i] = ClearTimeout(trk[c][i])]

---------------------------------------------------------------------------
\* Outside the plugin

\* The user copies a text: the clipboard changes.
Copy(t) ==
    /\ t # clipboard
    /\ clipboard' = t
    /\ UNCHANGED <<host, table, presses, kd, ku, ap, cl>>

\* The user toggles Prevent Clear in the property inspector; the host stores
\* the settings and the plugin gets them in onDidReceiveSettings, which
\* renders ev.payload.settings.
SettingsChanged(c) ==
    /\ settings' = [settings EXCEPT ![c].suppressClear = ~settings[c].suppressClear]
    /\ Render(c, settings'[c])
    /\ UNCHANGED <<clipboard, table, presses, kd, ku, ap, cl>>

---------------------------------------------------------------------------
\* onWillAppear

AppearStart(c) ==
    /\ ap[c] = "idle"
    /\ ap' = [ap EXCEPT ![c] = "getSettings"]
    /\ UNCHANGED <<host, clipboard, table, presses, kd, ku, cl>>

\* An onWillAppear that also drops the tracker of its context.
AppearResumeResetting(c) ==
    /\ ap[c] = "getSettings"
    /\ Render(c, settings[c])
    /\ Delete(c)
    /\ ap' = [ap EXCEPT ![c] = "idle"]
    /\ UNCHANGED <<settings, clipboard, trk, presses, kd, ku, cl>>

AppearResume(c) ==
    /\ ap[c] = "getSettings"
    /\ Render(c, settings[c])
    /\ ap' = [ap EXCEPT ![c] = "idle"]
    /\ UNCHANGED <<settings, clipboard, table, presses, kd, ku, cl>>

---------------------------------------------------------------------------
\* onSendToPlugin with payload.event = 'clearSlot'

ClearSlotStart(c) ==
    /\ cl[c].pc \in {"idle", "done"}
    /\ cl' = [cl EXCEPT ![c] = [ClIdle EXCEPT !.pc = "getSettings"]]
    /\ UNCHANGED <<host, clipboard, table, presses, kd, ku, ap>>

ClearSlotResume(c) ==
    /\ cl[c].pc = "getSettings"
    /\ settings' = [settings EXCEPT ![c] = ClearSlotSettings(settings[c])]
    /\ Render(c, ClearSlotSettings(settings[c]))
    /\ cl' = [cl EXCEPT ![c] = ClearSlotDone([cl[c] EXCEPT !.s = settings[c]])]
    /\ UNCHANGED <<clipboard, table, presses, kd, ku, ap>>

---------------------------------------------------------------------------
\* onKeyDown and the timer it sets

KeyDownStart(c) ==
    /\ kd[c] = "idle"
    /\ presses[c] < MaxPress
    /\ kd' = [kd EXCEPT ![c] = "getSettings"]
    /\ presses' = [presses EXCEPT ![c] = presses[c] + 1]
    /\ UNCHANGED <<host, clipboard, table, ku, ap, cl>>

KeyDownResume(c) ==
    /\ kd[c] = "getSettings"
    /\ LET existing == holdTrackers[c]
           cleared == IF existing # 0 THEN TrkClearTimeout(c, existing) ELSE trk
       IN  trk' = [cleared EXCEPT ![c][presses[c]] = NewTracker(settings[c])]
    /\ holdTrackers' = [holdTrackers EXCEPT ![c] = presses[c]]
    /\ kd' = [kd EXCEPT ![c] = "idle"]
    /\ UNCHANGED <<host, clipboard, presses, ku, ap, cl>>

\* A timer callback that also puts the button back to state 0.
TimerFireResettingState(c, i) ==
    /\ trk[c][i].timer = "armed"
    /\ trk' = [trk EXCEPT ![c][i] = TimerCallback(trk[c][i])]
    /\ title' = [title EXCEPT ![c] = HoldTitle]
    /\ vstate' = [vstate EXCEPT ![c] = 0]
    /\ UNCHANGED <<settings, clipboard, image, holdTrackers, presses,
                   kd, ku, ap, cl>>

\* The hold threshold has passed for the armed timer of tracker i.
TimerFire(c, i) ==
    /\ trk[c][i].timer = "armed"
    /\ trk' = [trk EXCEPT ![c][i] = TimerCallback(trk[c][i])]
    /\ title' = [title EXCEPT ![c] = HoldTitle]
    /\ UNCHANGED <<settings, clipboard, vstate, image, holdTrackers, presses,
                   kd, ku, ap, cl>>

---------------------------------------------------------------------------
\* onKeyUp, handleClick, handleClear

KeyUpStart(c) ==
    /\ ku[c].pc \in {"idle", "done", "failed"}
    /\ ku' = [ku EXCEPT ![c] =
                 [KuIdle EXCEPT !.pc = "getSettings",
                                !.tracker = holdTrackers[c],
                                !.early = /\ holdTrackers[c] # 0
                                          /\ ~trk[c][holdTrackers[c]].clearMode]]
    /\ UNCHANGED <<host, clipboard, table, presses, kd, ap, cl>>

\* if (!tracker) return
KeyUpNoTracker(c) ==
    /\ ku[c].pc = "getSettings"
    /\ ku[c].tracker = 0
    /\ ku' = [ku EXCEPT ![c] = NoTrackerReturn([ku[c] EXCEPT !.s = settings[c]])]
    /\ UNCHANGED <<host, clipboard, table, presses, kd, ap, cl>>

\* A hold-release whose handleClear acknowledges only when the slot had a
\* value.
KeyUpClearQuietOnEmpty(c) ==
    /\ ku[c].pc = "getSettings"
    /\ ku[c].tracker # 0
    /\ ReleaseBranch(trk[c][ku[c].tracker]) = "clear"
    /\ trk' = TrkClearTimeout(c, ku[c].tracker)
    /\ settings' = [settings EXCEPT ![c] = ClearedSettings(settings[c])]
    /\ Render(c, ClearedSettings(settings[c]))
    /\ Delete(c)
    /\ ku' = [ku EXCEPT ![c] =
                 KuDone(IF Truthy(settings[c].value)
                        THEN ShowOk([ku[c] EXCEPT !.s = settings[c]])
                        ELSE [ku[c] EXCEPT !.s = settings[c]], "clear")]
    /\ UNCHANGED <<clipboard, presses, kd, ap, cl>>

\* tracker.clearMode: handleClear, then the tracker is deleted.
KeyUpClear(c) ==
    /\ ku[c].pc = "getSettings"
    /\ ku[c].tracker # 0
    /\ ReleaseBranch(trk[c][ku[c].tracker]) = "clear"
    /\ trk' = TrkClearTimeout(c, ku[c].tracker)
    /\ settings' = [settings EXCEPT ![c] = ClearedSettings(settings[c])]
    /\ Render(c, ClearedSettings(settings[c]))
    /\ Delete(c)
    /\ ku' = [ku EXCEPT ![c] = KuDone(ShowOk([ku[c] EXCEPT !.s = settings[c]]), "clear")]
    /\ UNCHANGED <<clipboard, presses, kd, ap, cl>>

\* handleClick on a filled slot: writeClipboard(settings.value) is started.
KeyUpPasteBegin(c) ==
    /\ ku[c].pc = "getSettings"
    /\ ku[c].tracker # 0
    /\ ReleaseBranch(trk[c][ku[c].tracker]) = "click"
    /\ Truthy(settings[c].value)
    /\ trk' = TrkClearTimeout(c, ku[c].tracker)
    /\ ku' = [ku EXCEPT ![c] = [ku[c] EXCEPT !.pc = "write", !.s = settings[c],
                                             !.branch = "paste"]]
    /\ UNCHANGED <<host, clipboard, holdTrackers, presses, kd, ap, cl>>

\* handleClick on an empty slot: readClipboard() is started.
KeyUpCaptureBegin(c) ==
    /\ ku[c].pc = "getSettings"
    /\ ku[c].tracker # 0
    /\ ReleaseBranch(trk[c][ku[c].tracker]) = "click"
    /\ ~Truthy(settings[c].value)
    /\ trk' = TrkClearTimeout(c, ku[c].tracker)
    /\ ku' = [ku EXCEPT ![c] = [ku[c] EXCEPT !.pc = "read", !.s = settings[c],
                                             !.branch = "capture"]]
    /\ UNCHANGED <<host, clipboard, holdTrackers, presses, kd, ap, cl>>

\* A pbcopy that waits while the paste of another button is pending.
KeyUpWriteOkExclusive(c) ==
    /\ ku[c].pc = "write"
    /\ \A d \in Ctx \ {c} : ku[d].pc # "paste"
    /\ clipboard' = ku[c].s.value[1]
    /\ ku' = [ku EXCEPT ![c] = [ku[c] EXCEPT !.pc = "paste",
                                             !.pastes = Min2(ku[c].pastes + 1, MaxCount)]]
    /\ UNCHANGED <<host, table, presses, kd, ap, cl>>

\* pbcopy closed with code 0: simulatePaste() is started.
KeyUpWriteOk(c) ==
    /\ ku[c].pc = "write"
    /\ clipboard' = ku[c].s.value[1]
    /\ ku' = [ku EXCEPT ![c] = [ku[c] EXCEPT !.pc = "paste",
                                             !.pastes = Min2(ku[c].pastes + 1, MaxCount)]]
    /\ UNCHANGED <<host, table, presses, kd, ap, cl>>

\* A handleClick that catches the pbcopy failure and goes on to paste.
KeyUpWriteFailPasting(c) ==
    /\ ku[c].pc = "write"
    /\ ku' = [ku EXCEPT ![c] = [ku[c] EXCEPT !.pc = "paste", !.err = "write",
                                             !.pastes = Min2(ku[c].pastes + 1, MaxCount)]]
    /\ UNCHANGED <<host, clipboard, table, presses, kd, ap, cl>>

\* pbcopy failed: writeClipboard rejects, and handleClick and onKeyUp with it.
KeyUpWriteFail(c) ==
    /\ ku[c].pc = "write"
    /\ ku' = [ku EXCEPT ![c] = [ku[c] EXCEPT !.pc = "failed", !.err = "write"]]
    /\ UNCHANGED <<host, clipboard, table, presses, kd, ap, cl>>

\* osascript has sent Cmd+V and simulatePaste has returned: showOk, then the
\* tracker is deleted.
KeyUpPasteDone(c) ==
    /\ ku[c].pc = "paste"
    /\ Delete(c)
    /\ ku' = [ku EXCEPT ![c] = KuDone(ShowOk(ku[c]), "paste")]
    /\ UNCHANGED <<host, clipboard, trk, presses, kd, ap, cl>>

\* osascript failed: simulatePaste catches the error and returns, and
\* handleClick goes on as after a paste.
KeyUpPasteFail(c) ==
    /\ ku[c].pc = "paste"
    /\ Delete(c)
    /\ ku' = [ku EXCEPT ![c] = KuDone(ShowOk([ku[c] EXCEPT !.err = "paste"]), "paste")]
    /\ UNCHANGED <<host, clipboard, trk, presses, kd, ap, cl>>

\* readClipboard returned a text: it is stored, shown and acknowledged.
KeyUpReadText(c) ==
    /\ ku[c].pc = "read"
    /\ TruthyText(clipboard)
    /\ settings' = [settings EXCEPT ![c] = CapturedSettings(ku[c].s, clipboard)]
    /\ Render(c, CapturedSettings(ku[c].s, clipboard))
    /\ Delete(c)
    /\ ku' = [ku EXCEPT ![c] =
                 KuDone(ShowOk([ku[c] EXCEPT !.read = Some(clipboard)]), "capture")]
    /\ UNCHANGED <<clipboard, trk, presses, kd, ap, cl>>

\* readClipboard returned "": the clipboard is empty, or pbpaste failed.
KeyUpReadEmpty(c) ==
    /\ ku[c].pc = "read"
    /\ Delete(c)
    /\ ku' = [ku EXCEPT ![c] = KuDone([ku[c] EXCEPT !.read = Some(<<>>)], "nocapture")]
    /\ UNCHANGED <<host, clipboard, trk, presses, kd, ap, cl>>

---------------------------------------------------------------------------

Next ==
    \/ \E t \in ClipTexts : Copy(t)
    \/ \E c \in Main : SettingsChanged(c)
    \/ \E c \in Main : AppearStart(c)
    \/ \E c \in Main : AppearResume(c)
    \/ \E c \in Main : ClearSlotStart(c)
    \/ \E c \in Main : ClearSlotResume(c)
    \/ \E c \in Main : KeyDownStart(c)
    \/ \E c \in Main : KeyDownResume(c)
    \/ \E c \in Main : \E i \in 1..MaxPress : TimerFire(c, i)
    \/ \E c \in Main : KeyUpStart(c)
    \/ \E c \in Main : KeyUpNoTracker(c)
    \/ \E c \in Main : KeyUpClear(c)
    \/ \E c \in Main : KeyUpPasteBegin(c)
    \/ \E c \in Main : KeyUpCaptureBegin(c)
    \/ \E c \in Main : KeyUpWriteOk(c)
    \/ \E c \in Main : KeyUpWriteFail(c)
    \/ \E c \in Main : KeyUpPasteDone(c)
    \/ \E c \in Main : KeyUpPasteFail(c)
    \/ \E c \in Main : KeyUpReadText(c)
    \/ \E c \in Main : KeyUpReadEmpty(c)

Spec == Init /\ [][Next]_vars

---------------------------------------------------------------------------
\* Properties

Final == {"done", "failed"}

\* onKeyUp of context c resumes from getSettings in this step.
Released(c) == ku[c].pc = "getSettings" /\ ku'[c].pc # "getSettings"

\* The tracker object the release of context c looked up.
KuTracker(c) == trk[c][ku[c].tracker]

\* C1: a release that takes the click branch on an empty slot and whose
\* clipboard read returns a non-empty text turns the empty slot into a filled
\* one: value is exactly the text read, label is generateLabel of it, and the
\* release has called showOk exactly once.
C1_QuickClickCapture ==
    [][\A c \in Ctx :
          (ku[c].pc = "read" /\ ku'[c].pc = "done" /\ Truthy(ku'[c].read))
          => /\ ~Truthy(settings[c].value)
             /\ Truthy(settings'[c].value)
             /\ settings'[c].value = ku'[c].read
             /\ settings'[c].label = Some(generateLabel(ku'[c].read[1]))
             /\ ku'[c].acks = 1]_vars

C1_Witness ==
    \E c \in Ctx :
        /\ ku[c].pc = "done"
        /\ ku[c].read = Some(Blank)
        /\ ~KuTracker(c).clearMode
        /\ ku[c].acks = 1
        /\ settings[c].value = Some(Blank)

\* C2: every release that takes the click branch on a filled slot ends having
\* invoked the paste simulation exactly once and showOk exactly once.
C2_QuickClickPaste ==
    \A c \in Ctx :
        (ku[c].pc \in Final /\ ku[c].branch = "paste")
        => ku[c].pastes = 1 /\ ku[c].acks = 1

\* C3: a release whose timer has expired clears the slot (value and label
\* undefined, the empty display), the hold title having been sent exactly once
\* by that press before the release renders; no press sends it twice.
C3_HoldToClear ==
    /\ [](\A c \in Ctx : \A i \in 1..MaxPress : trk[c][i].shown <= 1)
    /\ [][\A c \in Ctx :
             (Released(c) /\ ku[c].tracker # 0 /\ KuTracker(c).timer = "fired")
             => /\ KuTracker(c).shown = 1
                /\ ku'[c].pc = "done" /\ ku'[c].branch = "clear"
                /\ settings'[c].value = None /\ settings'[c].label = None
                /\ title'[c] = EmptyTitle /\ vstate'[c] = 0
                /\ trk'[c][ku[c].tracker].shown = 1]_vars

C3_Witness ==
    \E c \in Ctx :
        /\ ku[c].pc = "done" /\ ku[c].branch = "clear"
        /\ Truthy(ku[c].s.value) /\ ~ku[c].s.suppressClear
        /\ KuTracker(c).timer = "fired" /\ KuTracker(c).shown = 1
        /\ settings[c].value = None /\ settings[c].label = None
        /\ title[c] = EmptyTitle

\* C4: a tracker installed while suppressClear was set has no timer, never
\* sends the hold title and never enters clear mode, and the release that
\* resolves it takes the click branch.
C4_LockedPress ==
    /\ \A c \in Ctx : \A i \in 1..MaxPress :
           trk[c][i].locked
           => trk[c][i].timer = "null" /\ ~trk[c][i].clearMode /\ trk[c][i].shown = 0
    /\ \A c \in Ctx :
           (ku[c].tracker # 0 /\ KuTracker(c).locked /\ ku[c].pc # "getSettings")
           => ku[c].branch \in {"paste", "capture", "nocapture"}

C4_Witness ==
    \E c \in Ctx :
        /\ ku[c].pc = "done" /\ ku[c].tracker # 0
        /\ KuTracker(c).locked
        /\ ku[c].branch = "paste" /\ Truthy(settings[c].value)

\* C5: no release clears a filled slot whose persisted suppressClear is true
\* when the release reads the settings.
C5_NoHoldClearWhenLocked ==
    \A c \in Ctx :
        (ku[c].pc = "done" /\ ku[c].branch = "clear" /\ Truthy(ku[c].s.value))
        => ~ku[c].s.suppressClear

\* C6: no timer callback sends the hold title for a context whose persisted
\* suppressClear is true.
C6_NoHoldTitleWhenLocked ==
    [][\A c \in Ctx : \A i \in 1..MaxPress :
          (trk[c][i].timer = "armed" /\ trk'[c][i].timer = "fired")
          => ~settings[c].suppressClear]_vars

\* C7: the clearSlot command leaves value and label undefined and renders the
\* empty display, whatever suppressClear is and whatever the tracker of the
\* context is; no step of it changes the tracker table or a tracker.
C7_ExplicitClear ==
    [][\A c \in Ctx :
          (cl'[c] # cl[c])
          => /\ UNCHANGED table
             /\ (cl'[c].pc = "done"
                 => /\ settings'[c].value = None /\ settings'[c].label = None
                    /\ settings'[c].suppressClear = settings[c].suppressClear
                    /\ title'[c] = EmptyTitle /\ vstate'[c] = 0)]_vars

C7_Witness ==
    \E c \in Ctx :
        /\ cl[c].pc = "done"
        /\ Truthy(cl[c].s.value) /\ cl[c].s.suppressClear
        /\ holdTrackers[c] # 0 /\ trk[c][holdTrackers[c]].clearMode
        /\ settings[c].value = None /\ settings[c].label = None
        /\ title[c] = EmptyTitle

C9_SlotInvariant ==
    \A c \in Ctx :
        /\ (settings[c].label = None) <=> (settings[c].value = None)
        /\ settings[c].value # None
           => settings[c].label = Some(generateLabel(settings[c].value[1]))

C9_Witness ==
    \E c \in Ctx :
        /\ ku[c].pc = "done" /\ ku[c].branch = "capture"
        /\ cl[c].pc = "done"
        /\ settings[c].value = Some(HelloWorld)
        /\ settings[c].label = Some(generateLabel(HelloWorld))

\* C10: when a release that found a tracker finishes, by returning or by
\* throwing, the table has no entry for its context.
C10_TrackerDiscarded ==
    [][\A c \in Ctx :
          (ku[c].pc \notin Final /\ ku'[c].pc \in Final /\ ku[c].tracker # 0)
          => holdTrackers'[c] = 0]_vars

\* C11: a paste release on which pbcopy or osascript has failed still returns
\* normally, having called showOk exactly once and simulatePaste at most once.
C11_ExternalFailuresSwallowed ==
    \A c \in Ctx :
        ku[c].err # "none"
        => /\ ku[c].pc = "done"
           /\ ku[c].acks = 1
           /\ ku[c].pastes <= 1

\* C12: a click on an empty slot whose readClipboard returns "" (the clipboard
\* is empty, or pbpaste failed) ends without setSettings, without a display
\* command and without showOk, and the slot is still empty.
C12_EmptyCaptureSilent ==
    [][\A c \in Ctx :
          (ku[c].pc = "read" /\ ku'[c].pc = "done" /\ ku'[c].read = Some(<<>>))
          => /\ UNCHANGED <<settings, title, vstate, image>>
             /\ ku'[c].acks = 0
             /\ ~Truthy(settings'[c].value)]_vars

C12_Witness ==
    \E c \in Ctx :
        /\ ku[c].pc = "done"
        /\ ku[c].branch = "nocapture"
        /\ ku[c].read = Some(<<>>)
        /\ ku[c].acks = 0
        /\ clipboard = HelloWorld
        /\ ~Truthy(settings[c].value)

\* C13: a release that found no tracker for its context returns at once: no
\* setSettings, no clipboard read or write, no paste simulation, no display
\* command, no showOk, and holdTrackers and the tracker objects are unchanged.
C13_ReleaseWithoutTracker ==
    [][\A c \in Ctx :
          (Released(c) /\ ku[c].tracker = 0)
          => /\ UNCHANGED <<settings, clipboard, title, vstate, image,
                            holdTrackers, trk>>
             /\ ku'[c].pc = "done"
             /\ ku'[c].read = None
             /\ ku'[c].acks = 0
             /\ ku'[c].pastes = 0]_vars

C13_Witness ==
    \E c \in Ctx :
        /\ ku[c].pc = "done"
        /\ ku[c].branch = "notracker"
        /\ ku[c].acks = 0
        /\ presses[c] > 0
        /\ Truthy(settings[c].value)

\* C14: a release delivered before the timer of its press has run takes the
\* click branch, never the clear branch, wherever the timer falls among the
\* turns of onKeyUp (stated for a release that read a filled slot, where the
\* clear branch loses the stored text).
C14_EarlyReleaseIsClick ==
    \A c \in Ctx :
        (ku[c].early /\ Truthy(ku[c].s.value)) => ku[c].branch # "clear"

\* C15: from the turn in which onKeyUp has cancelled the timer and taken the
\* click branch, the timer callback of that press does not run: the timer is
\* not pending and has not fired, clearMode is false, the hold title was never
\* sent by that press, and the release stays on the click branch.
C15_NoTimerAfterClick ==
    \A c \in Ctx :
        ku[c].branch \in {"paste", "capture", "nocapture"}
        => /\ KuTracker(c).timer \in {"null", "cleared"}
           /\ ~KuTracker(c).clearMode
           /\ KuTracker(c).shown = 0

\* A click is in progress (pbcopy running) on a press whose timer was pending.
C15_Witness ==
    \E c \in Ctx :
        /\ ku[c].pc = "write"
        /\ ku[c].branch = "paste"
        /\ KuTracker(c).timer = "cleared"

\* A step in which the settings of context c change and neither onKeyUp nor
\* onSendToPlugin has moved: the property inspector has changed them and
\* onDidReceiveSettings has run.
SettingsChangedStep(c) ==
    /\ settings'[c] # settings[c]
    /\ ku'[c] = ku[c]
    /\ cl'[c] = cl[c]

\* C16: onDidReceiveSettings renders the settings it received (title, state
\* and image of the new settings) and writes nothing: value and label of the
\* persisted settings, holdTrackers and the tracker objects are unchanged.
C16_SettingsChangedFrame ==
    [][\A c \in Ctx :
          SettingsChangedStep(c)
          => /\ settings'[c].value = settings[c].value
             /\ settings'[c].label = settings[c].label
             /\ UNCHANGED <<holdTrackers, trk, clipboard>>
             /\ title'[c] = DisplayOf(settings'[c]).title
             /\ vstate'[c] = DisplayOf(settings'[c]).state
             /\ image'[c] = DisplayOf(settings'[c]).image]_vars

\* Prevent Clear was switched on while the button is held: the lock icon is
\* shown, the stored text and the tracker of the press are still there.
C16_Witness ==
    \E c \in Ctx :
        /\ holdTrackers[c] # 0
        /\ ~trk[c][holdTrackers[c]].locked
        /\ settings[c].suppressClear
        /\ settings[c].value = Some(HelloWorld)
        /\ image[c] = "locked"
        /\ ap[c] = "idle"
        /\ ku[c] = KuIdle
        /\ cl[c] = ClIdle

\* A step in which updateDisplay has run for context c: the end of
\* onWillAppear, of onSendToPlugin, of a release that cleared or captured, or
\* onDidReceiveSettings. In each of them the settings rendered are the ones
\* the host holds after the step.
RenderStep(c) ==
    \/ ap[c] = "getSettings" /\ ap'[c] = "idle"
    \/ cl[c].pc = "getSettings" /\ cl'[c].pc = "done"
    \/ /\ ku[c].pc \in {"getSettings", "read"}
       /\ ku'[c].pc = "done"
       /\ ku'[c].branch \in {"clear", "capture"}
    \/ SettingsChangedStep(c)

\* C17: every updateDisplay of a slot that has a value sends exactly the
\* slot's label as title, and of a slot without a value "Empty"; also when the
\* value is only whitespace.
C17_TitleIsLabel ==
    [][\A c \in Ctx :
          RenderStep(c)
          => IF settings'[c].value # None
             THEN settings'[c].label = Some(title'[c])
             ELSE title'[c] = EmptyTitle]_vars

\* C17 as the code has it: the title is the label when the label is not empty,
\* "Stored" when the slot has a value and its label is empty (a value of
\* whitespace only), and "Empty" when the slot has no value.
C17_TitleIsLabelOrStored ==
    [][\A c \in Ctx :
          RenderStep(c)
          => IF settings'[c].value # None
             THEN /\ settings'[c].label # None
                  /\ title'[c] = IF settings'[c].label[1] # <<>>
                                 THEN settings'[c].label[1]
                                 ELSE StoredTitle
             ELSE title'[c] = EmptyTitle]_vars

\* A captured blank is shown as "Stored".
C17_Witness ==
    \E c \in Ctx :
        /\ ku[c].pc = "done"
        /\ ku[c].branch = "capture"
        /\ ku[c].read = Some(Blank)
        /\ settings[c].value = Some(Blank)
        /\ settings[c].label = Some(<<>>)
        /\ title[c] = StoredTitle

\* C18: every updateDisplay of a slot with suppressClear set sends the lock
\* image of its fill state (locked.png when it has a value, empty-locked.png
\* when it has none) and of a slot without it sends undefined, which gives the
\* default image back; the state sent is 1 when the slot has a value, else 0.
C18_IconAndState ==
    [][\A c \in Ctx :
          RenderStep(c)
          => /\ image'[c] = IF ~settings'[c].suppressClear THEN "undefined"
                            ELSE IF settings'[c].value # None THEN "locked"
                            ELSE "empty-locked"
             /\ vstate'[c] = IF settings'[c].value # None THEN 1 ELSE 0]_vars

\* A locked empty slot and its image, after the lock was set on a filled slot
\* and the slot was cleared from the property inspector.
C18_Witness ==
    \E c \in Ctx :
        /\ cl[c].pc = "done"
        /\ Truthy(cl[c].s.value)
        /\ settings[c].suppressClear
        /\ settings[c].value = None
        /\ image[c] = "empty-locked"
        /\ vstate[c] = 0

---------------------------------------------------------------------------
\* generateLabel on bounded sets of texts
\*
\* When the plugin starts the slot is empty and the clipboard holds a text of
\* FormatInputs; the button is clicked, the release reads the clipboard and
\* stores the text with generateLabel of it as the label.

Letters ==
    <<"a", "b", "c", "d", "e", "f", "g", "h", "i", "j", "k", "l", "m",
      "n", "o", "p", "q", "r", "s", "t", "u", "v", "w", "x", "y", "z">>

\* Every text of at most n characters over the set chars.
TextsOver(chars, n) == UNION {[1..k -> chars] : k \in 0..n}

\* Words separated by one space, no space at either end.
SingleSpaced(t) ==
    \/ t = <<>>
    \/ /\ t[1] # " "
       /\ t[Len(t)] # " "
       /\ \A i \in 1..(Len(t) - 1) : ~(t[i] = " " /\ t[i + 1] = " ")

\* The text with its i-th character, when not a space, replaced by the i-th
\* letter: no letter occurs twice.
Lettered(t) == [i \in 1..Len(t) |-> IF t[i] = " " THEN " " ELSE Letters[i]]

\* Texts with spaces and line feeds anywhere, up to MaxRaw characters.
RawInputs == TextsOver({"a", " ", "\n"}, MaxRaw)

\* Texts of single-spaced words of distinct letters, up to MaxLen characters.
WordInputs == {Lettered(t) : t \in {x \in TextsOver({"a", " "}, MaxLen) : SingleSpaced(x)}}

\* The texts of the two @example lines of generateLabel.
VeryLongText ==
    <<"T", "h", "i", "s", " ", "i", "s", " ", "a", " ", "v", "e", "r", "y", " ",
      "l", "o", "n", "g", " ", "t", "e", "x", "t">>

\* A text of more than 40 characters.
PangramText ==
    <<"T", "h", "e", " ", "q", "u", "i", "c", "k", " ", "b", "r", "o", "w", "n",
      " ", "f", "o", "x", " ", "j", "u", "m", "p", "s", " ", "o", "v", "e", "r",
      " ", "t", "h", "e", " ", "l", "a", "z", "y", " ", "d", "o", "g">>

DocExamples == {HelloWorld, VeryLongText, PangramText}

FormatInputs == RawInputs \cup WordInputs \cup DocExamples

InitFormat ==
    /\ settings = [c \in Ctx |-> EmptySlot]
    /\ clipboard \in FormatInputs
    /\ title = [c \in Ctx |-> <<>>]
    /\ vstate = [c \in Ctx |-> 0]
    /\ image = [c \in Ctx |-> "undefined"]
    /\ holdTrackers = [c \in Ctx |-> 0]
    /\ trk = [c \in Ctx |-> [i \in 1..MaxPress |-> NoTracker]]
    /\ presses = [c \in Ctx |-> 0]
    /\ kd = [c \in Ctx |-> "idle"]
    /\ ku = [c \in Ctx |-> KuIdle]
    /\ ap = [c \in Ctx |-> "idle"]
    /\ cl = [c \in Ctx |-> ClIdle]

NextFormat ==
    \/ \E c \in Main : KeyDownStart(c)
    \/ \E c \in Main : KeyDownResume(c)
    \/ \E c \in Main : KeyUpStart(c)
    \/ \E c \in Main : KeyUpCaptureBegin(c)
    \/ \E c \in Main : KeyUpReadText(c)

SpecFormat == InitFormat /\ [][NextFormat]_vars

\* The whitespace-normalized form of a text, word by word: the words of the
\* text (its maximal runs of non-whitespace) joined by single spaces.
RECURSIVE Normalized(_)
Normalized(s) ==
    IF s = <<>> THEN <<>>
    ELSE IF IsWS(s[1]) THEN Normalized(Tail(s))
    ELSE LET k == CHOOSE n \in 1..Len(s) :
                      /\ \A i \in 1..n : ~IsWS(s[i])
                      /\ n = Len(s) \/ IsWS(s[n + 1])
             rest == Normalized(SubSeq(s, k + 1, Len(s)))
         IN  IF rest = <<>> THEN SubSeq(s, 1, k)
             ELSE SubSeq(s, 1, k) \o <<" ">> \o rest

\* C19: for every text whose normalized form has at most 7 characters, the
\* label stored with it is exactly the normalized form: one line, no ellipsis.
C19_ShortLabel ==
    \A c \in Ctx :
        (settings[c].value # None /\ Len(Normalized(settings[c].value[1])) <= 7)
        => /\ settings[c].label = Some(Normalized(settings[c].value[1]))
           /\ \A i \in 1..Len(settings[c].label[1]) :
                  settings[c].label[1][i] \notin {"\n", Ellipsis}

\* A text with a line feed and a run of whitespace in it was captured; its
\* label is the normalized form, which differs from the text.
C19_Witness ==
    \E c \in Ctx :
        /\ settings[c].value # None
        /\ \E i \in 1..Len(settings[c].value[1]) : settings[c].value[1][i] = "\n"
        /\ Len(Normalized(settings[c].value[1])) >= 3
        /\ Len(settings[c].value[1]) > Len(Normalized(settings[c].value[1])) + 2
        /\ settings[c].label = Some(Normalized(settings[c].value[1]))

\* C20: every label has at most 2 lines and at most 7 characters on each
\* line, the ellipsis counting as one character.
C20_LabelGeometry ==
    \A c \in Ctx :
        settings[c].label # None
        => LET l == settings[c].label[1]
           IN  /\ Cardinality({i \in 1..Len(l) : l[i] = "\n"}) <= 1
               /\ \A i \in 1..(Len(l) - 7) : \E k \in i..(i + 7) : l[k] = "\n"

\* The split of a normalized text n at the last space at or before index 7
\* (0-based) when that index is at least 3, and at index 7 otherwise; the two
\* halves without the spaces at their ends.
SplitPoint(n) ==
    LET spaces == {i \in 0..7 : i < Len(n) /\ n[i + 1] = " "}
        last == CHOOSE i \in spaces : \A j \in spaces : j <= i
    IN  IF spaces = {} THEN 7 ELSE IF last >= 3 THEN last ELSE 7

FirstLine(n) == Normalized(SubSeq(n, 1, SplitPoint(n)))

SecondLine(n) == Normalized(SubSeq(n, SplitPoint(n) + 1, Len(n)))

HelloWorldLabel == <<"H", "e", "l", "l", "o", "\n", "W", "o", "r", "l", "d">>

\* C21: for every text whose normalized form has 8 to 14 characters the label
\* is the first half, a line feed and the second half of the split above, with
\* no ellipsis; the label of "Hello World" is "Hello", line feed, "World".
C21_SplitRule ==
    \A c \in Ctx :
        settings[c].value # None
        => LET n == Normalized(settings[c].value[1])
           IN  /\ (Len(n) >= 8 /\ Len(n) <= 14)
                  => /\ settings[c].label =
                            Some(FirstLine(n) \o <<"\n">> \o SecondLine(n))
                     /\ \A i \in 1..Len(settings[c].label[1]) :
                            settings[c].label[1][i] # Ellipsis
               /\ settings[c].value = Some(HelloWorld)
                  => settings[c].label = Some(HelloWorldLabel)

\* "Hello World" was captured.
C21_Witness ==
    \E c \in Ctx :
        /\ ku[c].pc = "done"
        /\ ku[c].read = Some(HelloWorld)
        /\ settings[c].value = Some(HelloWorld)
        /\ settings[c].label = Some(HelloWorldLabel)

VeryLongLabel ==
    <<"T", "h", "i", "s", " ", "i", "s", "\n", "a", " ", "v", "e", "r", "y", Ellipsis>>

\* C22: for every text whose normalized form has more than 14 characters the
\* label has exactly one line feed, ends with the ellipsis, has no other
\* ellipsis, and has at most 14 characters besides the line feed and the
\* ellipsis; for a normalized form of at most 14 characters the label has no
\* ellipsis.
C22_Truncation ==
    \A c \in Ctx :
        settings[c].value # None
        => LET n == Normalized(settings[c].value[1])
               l == settings[c].label[1]
           IN  IF Len(n) > 14
               THEN /\ Cardinality({i \in 1..Len(l) : l[i] = "\n"}) = 1
                    /\ l[Len(l)] = Ellipsis
                    /\ Cardinality({i \in 1..Len(l) : l[i] = Ellipsis}) = 1
                    /\ Len(l) - 2 <= 14
               ELSE \A i \in 1..Len(l) : l[i] # Ellipsis

\* "This is a very long text" was captured: "This is", line feed, "a very" and
\* the ellipsis.
C22_Witness ==
    \E c \in Ctx :
        /\ ku[c].pc = "done"
        /\ settings[c].value = Some(VeryLongText)
        /\ settings[c].label = Some(VeryLongLabel)

\* C23: onWillAppear sends the title, state and image of the settings the host
\* holds and writes neither the settings nor holdTrackers nor a tracker; when
\* the display already is that of the settings (it has just run), running it
\* again leaves title, state and image as they are.
C23_AppearIdempotent ==
    [][\A c \in Ctx :
          (ap[c] = "getSettings" /\ ap'[c] = "idle")
          => /\ title'[c] = DisplayOf(settings[c]).title
             /\ vstate'[c] = DisplayOf(settings[c]).state
             /\ image'[c] = DisplayOf(settings[c]).image
             /\ UNCHANGED <<settings, clipboard, holdTrackers, trk>>
             /\ (/\ title[c] = DisplayOf(settings[c]).title
                 /\ vstate[c] = DisplayOf(settings[c]).state
                 /\ image[c] = DisplayOf(settings[c]).image)
                => UNCHANGED <<title, vstate, image>>]_vars

\* onWillAppear is in flight for a pressed button whose display already shows
\* its locked, filled slot.
C23_Witness ==
    \E c \in Ctx :
        /\ ap[c] = "getSettings"
        /\ holdTrackers[c] # 0
        /\ settings[c].value = Some(HelloWorld)
        /\ settings[c].suppressClear
        /\ title[c] = DisplayOf(settings[c]).title
        /\ vstate[c] = 1
        /\ image[c] = "locked"

\* C24: the release of a press whose timer has run, on a slot without
\* suppressClear, leaves the slot empty whether it had a value or not; on a
\* slot that was already empty it still is a clear (the empty display is sent
\* and showOk is called once), and the clipboard is neither read nor captured.
C24_HoldClearsAnyFillState ==
    [][\A c \in Ctx :
          (/\ Released(c)
           /\ ku[c].tracker # 0
           /\ KuTracker(c).clearMode
           /\ ~settings[c].suppressClear)
          => /\ settings'[c] = EmptySlot
             /\ ku'[c].pc = "done"
             /\ ku'[c].branch = "clear"
             /\ ku'[c].read = None
             /\ ku'[c].acks = 1
             /\ title'[c] = EmptyTitle
             /\ vstate'[c] = 0
             /\ image'[c] = "undefined"
             /\ UNCHANGED clipboard]_vars

\* A hold was released on an empty slot while the clipboard held a text: the
\* release cleared and acknowledged, and captured nothing.
C24_Witness ==
    \E c \in Ctx :
        /\ ku[c].pc = "done"
        /\ ku[c].branch = "clear"
        /\ ku[c].s = EmptySlot
        /\ ku[c].read = None
        /\ ku[c].acks = 1
        /\ clipboard = HelloWorld
        /\ settings[c] = EmptySlot
        /\ title[c] = EmptyTitle

PangramLabel == <<"T", "h", "e", "\n", "q", "u", "i", "c", "k", Ellipsis>>

C26_ReleaseDiscardsOwnTracker ==
    [][\A c \in Ctx :
          (holdTrackers[c] # 0 /\ holdTrackers'[c] = 0)
          => ku[c].tracker = holdTrackers[c]]_vars

\* The handlers of context c that have started and not yet returned.
InFlight(c) ==
    (IF kd[c] = "getSettings" THEN {"keyDown"} ELSE {})
    \cup (IF ku[c].pc \in {"getSettings", "write", "paste", "read"} THEN {"keyUp"} ELSE {})
    \cup (IF ap[c] = "getSettings" THEN {"willAppear"} ELSE {})
    \cup (IF cl[c].pc = "getSettings" THEN {"sendToPlugin"} ELSE {})

\* C27: while one handler of a context is suspended on an external call no
\* other handler of that context runs: at most one is in flight.
C27_NonReentrant ==
    \A c \in Ctx : Cardinality(InFlight(c)) <= 1

\* C28: each context has at most one pending timer, and a pending timer is
\* that of the tracker holdTrackers has for the context.
C28_OneArmedTimer ==
    \A c \in Ctx :
        /\ Cardinality({i \in 1..MaxPress : trk[c][i].timer = "armed"}) <= 1
        /\ \A i \in 1..MaxPress : trk[c][i].timer = "armed" => holdTrackers[c] = i

---------------------------------------------------------------------------
\* onSendToPlugin await by await
\*
\* setSettings, setTitle, setState and setImage return promises and the code
\* awaits each of them. In Spec each settles within the turn that issues it.
\* Here onSendToPlugin may stay suspended at each of these awaits, so that
\* other turns (a press, a timer callback, onWillAppear) can come in between;
\* settling within the turn is the run in which its steps follow one another.
\* cl[c].pc names the command that has been issued and is awaited; cl[c].s is
\* the settings the handler has read.

\* getSettings has returned: setSettings(clearedSettings) is issued.
ClearSlotWrite(c) ==
    /\ cl[c].pc = "getSettings"
    /\ settings' = [settings EXCEPT ![c] = ClearSlotSettings(settings[c])]
    /\ cl' = [cl EXCEPT ![c] = [cl[c] EXCEPT !.pc = "setSettings", !.s = settings[c]]]
    /\ UNCHANGED <<clipboard, display, table, presses, kd, ku, ap>>

\* updateDisplay(ev, clearedSettings) starts: setTitle is issued.
ClearSlotSetTitle(c) ==
    /\ cl[c].pc = "setSettings"
    /\ title' = [title EXCEPT ![c] = DisplayOf(ClearSlotSettings(cl[c].s)).title]
    /\ cl' = [cl EXCEPT ![c].pc = "setTitle"]
    /\ UNCHANGED <<settings, clipboard, vstate, image, table, presses, kd, ku, ap>>

\* setState is issued.
ClearSlotSetState(c) ==
    /\ cl[c].pc = "setTitle"
    /\ vstate' = [vstate EXCEPT ![c] = DisplayOf(ClearSlotSettings(cl[c].s)).state]
    /\ cl' = [cl EXCEPT ![c].pc = "setState"]
    /\ UNCHANGED <<settings, clipboard, title, image, table, presses, kd, ku, ap>>

\* setImage is issued; what is left of the handler is a log line.
ClearSlotSetImage(c) ==
    /\ cl[c].pc = "setState"
    /\ image' = [image EXCEPT ![c] = DisplayOf(ClearSlotSettings(cl[c].s)).image]
    /\ cl' = [cl EXCEPT ![c] = ClearSlotDone(cl[c])]
    /\ UNCHANGED <<settings, clipboard, title, vstate, table, presses, kd, ku, ap>>

NextDisplay ==
    \/ \E c \in Main : SettingsChanged(c)
    \/ \E c \in Main : AppearStart(c)
    \/ \E c \in Main : AppearResume(c)
    \/ \E c \in Main : ClearSlotStart(c)
    \/ \E c \in Main : ClearSlotWrite(c)
    \/ \E c \in Main : ClearSlotSetTitle(c)
    \/ \E c \in Main : ClearSlotSetState(c)
    \/ \E c \in Main : ClearSlotSetImage(c)
    \/ \E c \in Main : KeyDownStart(c)
    \/ \E c \in Main : KeyDownResume(c)
    \/ \E c \in Main : \E i \in 1..MaxPress : TimerFire(c, i)

SpecDisplay == Init /\ [][NextDisplay]_vars

C30_WritesKeepSuppressClear ==
    [][\A c \in Ctx :
          (settings'[c] # settings[c] /\ ~SettingsChangedStep(c))
          => settings'[c].suppressClear = settings[c].suppressClear]_vars

---------------------------------------------------------------------------
\* Properties of the display, the slot and the contexts

\* C31: when no handler of a context is in flight, holdTrackers has no entry
\* for it and its display has been rendered, the title and the state on the
\* button are those of the persisted settings; the hold title is not showing.
C31_DisplayMatchesSlotAtRest ==
    \A c \in Ctx :
        (InFlight(c) = {} /\ holdTrackers[c] = 0 /\ title[c] # <<>>)
        => /\ title[c] = DisplayOf(settings[c]).title
           /\ vstate[c] = DisplayOf(settings[c]).state
           /\ title[c] # HoldTitle


TimerStep(c, i) == trk[c][i].timer = "armed" /\ trk'[c][i].timer = "fired"

\* C33: a step in which a timer callback runs sets clearMode on its own
\* tracker and the hold title on its context, and changes nothing else: no
\* other tracker, not the holdTrackers entry, the settings, the clipboard, the
\* state or the image, and no handler acknowledges or moves.
C33_TimerFrame ==
    [][\A c \in Ctx : \A i \in 1..MaxPress :
        TimerStep(c, i)
        => /\ trk'[c][i].clearMode
           /\ title' = [title EXCEPT ![c] = HoldTitle]
           /\ \A d \in Ctx : \A j \in 1..MaxPress :
                  <<d, j>> # <<c, i>> => trk'[d][j] = trk[d][j]
           /\ UNCHANGED <<settings, clipboard, vstate, image, holdTrackers,
                          presses, kd, ku, ap, cl>>]_vars

\* The timer of a press on a filled, rendered slot has fired.
C33_Witness ==
    \E c \in Ctx : \E i \in 1..MaxPress :
        /\ trk[c][i].timer = "fired" /\ trk[c][i].clearMode
        /\ title[c] = HoldTitle
        /\ vstate[c] = 1
        /\ Truthy(settings[c].value)


\* onKeyUp starts for context c in this step and looks up its tracker.
ReleaseArrives(c) == ku[c].pc # "getSettings" /\ ku'[c].pc = "getSettings"

\* C34: once a further keyDown has arrived for a context, no timer of an
\* earlier press of that context runs its callback, and a release that
\* arrives takes the tracker of the latest press or none, never the tracker
\* an earlier press has left in holdTrackers.
C34_MissedReleaseHarmless ==
    [][\A c \in Ctx :
        /\ \A i \in 1..MaxPress : TimerStep(c, i) => i = presses[c]
        /\ ReleaseArrives(c) => ku'[c].tracker \in {0, presses[c]}]_vars


\* C35: on the paste branch simulatePaste is called in the step in which
\* pbcopy has completed and the clipboard holds the stored text; a click whose
\* writeClipboard rejected calls no simulatePaste and sends no showOk; and
\* showOk is sent in the step in which simulatePaste returns, not before.
C35_PasteOrdering ==
    [][\A c \in Ctx :
        /\ ku'[c].pastes > ku[c].pastes
           => /\ ku[c].pc = "write" /\ ku'[c].pc = "paste"
              /\ clipboard' = ku[c].s.value[1]
        /\ ku'[c].err = "write" => (ku'[c].pastes = 0 /\ ku'[c].acks = 0)
        /\ (ku'[c].branch = "paste" /\ ku'[c].acks > ku[c].acks)
           => /\ ku[c].pc = "paste" /\ ku'[c].pc = "done"
              /\ ku[c].pastes = 1
        /\ (ku'[c].branch = "paste" /\ ku'[c].pc \in {"write", "paste"})
           => ku'[c].acks = 0]_vars

\* A paste click has completed: one pbcopy, one simulatePaste, one showOk.
C35_Witness ==
    \E c \in Ctx :
        /\ ku[c].pc = "done" /\ ku[c].branch = "paste"
        /\ ku[c].pastes = 1 /\ ku[c].acks = 1
        /\ ku[c].err = "none"
        /\ clipboard = ku[c].s.value[1]


---------------------------------------------------------------------------
\* handleClear and the capture branch of handleClick await by await
\*
\* As for onSendToPlugin above: the release handler may stay suspended at its
\* awaits of setSettings, setTitle, setState, setImage and showOk.  ku[c].pc
\* names the command that has been issued and is awaited, ku[c].s is the
\* settings onKeyUp has read and ku[c].read the text readClipboard returned.

\* emptySettings of handleClear or newSettings of handleClick: the object the
\* handler has built in memory and passes to setSettings and updateDisplay.
Written(r) ==
    IF r.branch = "clear"
    THEN ClearedSettings(r.s)
    ELSE CapturedSettings(r.s, r.read[1])

\* The object the release handler of context c has built.
KuWritten(c) == Written(ku[c])

\* tracker.clearMode: handleClear issues setSettings(emptySettings).
KeyUpClearWrite(c) ==
    /\ ku[c].pc = "getSettings"
    /\ ku[c].tracker # 0
    /\ ReleaseBranch(trk[c][ku[c].tracker]) = "clear"
    /\ trk' = TrkClearTimeout(c, ku[c].tracker)
    /\ settings' = [settings EXCEPT ![c] = ClearedSettings(settings[c])]
    /\ ku' = [ku EXCEPT ![c] = [ku[c] EXCEPT !.pc = "setSettings", !.s = settings[c],
                                             !.branch = "clear"]]
    /\ UNCHANGED <<clipboard, display, holdTrackers, presses, kd, ap, cl>>

\* readClipboard returned a text: setSettings(newSettings) is issued.
KeyUpCaptureWrite(c) ==
    /\ ku[c].pc = "read"
    /\ TruthyText(clipboard)
    /\ settings' = [settings EXCEPT ![c] = CapturedSettings(ku[c].s, clipboard)]
    /\ ku' = [ku EXCEPT ![c] = [ku[c] EXCEPT !.pc = "setSettings",
                                             !.read = Some(clipboard)]]
    /\ UNCHANGED <<clipboard, display, table, presses, kd, ap, cl>>

\* updateDisplay(ev, newSettings) starts: setTitle is issued.
KeyUpSetTitle(c) ==
    /\ ku[c].pc = "setSettings"
    /\ title' = [title EXCEPT ![c] = DisplayOf(KuWritten(c)).title]
    /\ ku' = [ku EXCEPT ![c].pc = "setTitle"]
    /\ UNCHANGED <<settings, clipboard, vstate, image, table, presses, kd, ap, cl>>

\* setState is issued.
KeyUpSetState(c) ==
    /\ ku[c].pc = "setTitle"
    /\ vstate' = [vstate EXCEPT ![c] = DisplayOf(KuWritten(c)).state]
    /\ ku' = [ku EXCEPT ![c].pc = "setState"]
    /\ UNCHANGED <<settings, clipboard, title, image, table, presses, kd, ap, cl>>

\* An updateDisplay that reads the image from the persisted settings.
KeyUpSetImageRereading(c) ==
    /\ ku[c].pc = "setState"
    /\ image' = [image EXCEPT ![c] = DisplayOf(settings[c]).image]
    /\ ku' = [ku EXCEPT ![c].pc = "setImage"]
    /\ UNCHANGED <<settings, clipboard, title, vstate, table, presses, kd, ap, cl>>

\* setImage is issued.
KeyUpSetImage(c) ==
    /\ ku[c].pc = "setState"
    /\ image' = [image EXCEPT ![c] = DisplayOf(KuWritten(c)).image]
    /\ ku' = [ku EXCEPT ![c].pc = "setImage"]
    /\ UNCHANGED <<settings, clipboard, title, vstate, table, presses, kd, ap, cl>>

\* updateDisplay has returned: showOk is issued.
KeyUpShowOk(c) ==
    /\ ku[c].pc = "setImage"
    /\ ku' = [ku EXCEPT ![c] = [ShowOk(ku[c]) EXCEPT !.pc = "showOk"]]
    /\ UNCHANGED <<host, clipboard, table, presses, kd, ap, cl>>

\* showOk has settled: the handler returns to onKeyUp, which deletes the
\* tracker.
KeyUpReturn(c) ==
    /\ ku[c].pc = "showOk"
    /\ Delete(c)
    /\ ku' = [ku EXCEPT ![c] = KuDone(ku[c], ku[c].branch)]
    /\ UNCHANGED <<host, clipboard, trk, presses, kd, ap, cl>>

NextWrites ==
    \/ \E c \in Main : SettingsChanged(c)
    \/ \E c \in Main : ClearSlotStart(c)
    \/ \E c \in Main : ClearSlotWrite(c)
    \/ \E c \in Main : ClearSlotSetTitle(c)
    \/ \E c \in Main : ClearSlotSetState(c)
    \/ \E c \in Main : ClearSlotSetImage(c)
    \/ \E c \in Main : KeyDownStart(c)
    \/ \E c \in Main : KeyDownResume(c)
    \/ \E c \in Main : \E i \in 1..MaxPress : TimerFire(c, i)
    \/ \E c \in Main : KeyUpStart(c)
    \/ \E c \in Main : KeyUpClearWrite(c)
    \/ \E c \in Main : KeyUpCaptureBegin(c)
    \/ \E c \in Main : KeyUpCaptureWrite(c)
    \/ \E c \in Main : KeyUpSetTitle(c)
    \/ \E c \in Main : KeyUpSetState(c)
    \/ \E c \in Main : KeyUpSetImage(c)
    \/ \E c \in Main : KeyUpShowOk(c)
    \/ \E c \in Main : KeyUpReturn(c)

SpecWrites == Init /\ [][NextWrites]_vars

\* The release handler of context c issues a display command in this step.
KuDisplayStep(c) ==
    ku'[c].pc # ku[c].pc /\ ku'[c].pc \in {"setTitle", "setState", "setImage"}

\* onSendToPlugin of context c issues a display command in this step.
ClDisplayStep(c) ==
    cl'[c].pc # cl[c].pc /\ cl[c].pc \in {"setSettings", "setTitle", "setState"}

\* C36: on capture, hold-clear and clearSlot the step that issues setSettings
\* stores the object the handler has built and sends no display command; the
\* display commands come in later steps and carry the values of that object,
\* also when the persisted settings have changed since; and showOk of capture
\* and hold-clear is issued after setImage, the last display command.
C36_WriteThenDisplayThenOk ==
    [][\A c \in Ctx :
        /\ (ku'[c].pc = "setSettings" /\ ku[c].pc # "setSettings")
           => settings'[c] = Written(ku'[c]) /\ UNCHANGED display
        /\ (cl'[c].pc = "setSettings" /\ cl[c].pc # "setSettings")
           => settings'[c] = ClearSlotSettings(cl'[c].s) /\ UNCHANGED display
        /\ KuDisplayStep(c)
           => /\ ku[c].pc \in {"setSettings", "setTitle", "setState"}
              /\ ku'[c].pc = "setTitle"
                 => title'[c] = DisplayOf(KuWritten(c)).title
              /\ ku'[c].pc = "setState"
                 => vstate'[c] = DisplayOf(KuWritten(c)).state
              /\ ku'[c].pc = "setImage"
                 => image'[c] = DisplayOf(KuWritten(c)).image
              /\ ku'[c].acks = 0
        /\ ClDisplayStep(c)
           => /\ cl[c].pc = "setSettings"
                 => title'[c] = DisplayOf(ClearSlotSettings(cl[c].s)).title
              /\ cl[c].pc = "setTitle"
                 => vstate'[c] = DisplayOf(ClearSlotSettings(cl[c].s)).state
              /\ cl[c].pc = "setState"
                 => image'[c] = DisplayOf(ClearSlotSettings(cl[c].s)).image
        /\ ku'[c].acks > ku[c].acks
           => ku[c].pc = "setImage" /\ ku'[c].pc = "showOk"]_vars

\* A capture has been acknowledged, and the image on the button is the one of
\* newSettings although Prevent Clear was changed after the write.
C36_Witness ==
    \E c \in Ctx :
        /\ ku[c].pc = "done" /\ ku[c].branch = "capture" /\ ku[c].acks = 1
        /\ settings[c].suppressClear # KuWritten(c).suppressClear
        /\ settings[c].value = KuWritten(c).value
        /\ image[c] = DisplayOf(KuWritten(c)).image
        /\ image[c] # DisplayOf(settings[c]).image


---------------------------------------------------------------------------
\* Two buttons
\*
\* The same handlers with both contexts of Ctx on the deck, each button
\* pressed once.  The first button starts from any of ValidSlots and also
\* gets onWillAppear, onDidReceiveSettings and clearSlot; the second holds a
\* stored text and is not locked.

\* The buttons other than the first.
Others == Ctx \ Main

\* A first keyDown on button c.
FirstKeyDownStart(c) == presses[c] = 0 /\ KeyDownStart(c)

InitPair ==
    /\ settings \in {f \in [Ctx -> ValidSlots] :
                         \A c \in Others : Truthy(f[c].value) /\ ~f[c].suppressClear}
    /\ clipboard = <<>>
    /\ title = [c \in Ctx |-> <<>>]
    /\ vstate = [c \in Ctx |-> 0]
    /\ image = [c \in Ctx |-> "undefined"]
    /\ holdTrackers = [c \in Ctx |-> 0]
    /\ trk = [c \in Ctx |-> [i \in 1..MaxPress |-> NoTracker]]
    /\ presses = [c \in Ctx |-> 0]
    /\ kd = [c \in Ctx |-> "idle"]
    /\ ku = [c \in Ctx |-> KuIdle]
    /\ ap = [c \in Ctx |-> "idle"]
    /\ cl = [c \in Ctx |-> ClIdle]

NextPair ==
    \/ \E c \in Main : SettingsChanged(c)
    \/ \E c \in Main : AppearStart(c)
    \/ \E c \in Main : AppearResume(c)
    \/ \E c \in Main : ClearSlotStart(c)
    \/ \E c \in Main : ClearSlotResume(c)
    \/ \E c \in Ctx : FirstKeyDownStart(c)
    \/ \E c \in Ctx : KeyDownResume(c)
    \/ \E c \in Ctx : \E i \in 1..MaxPress : TimerFire(c, i)
    \/ \E c \in Ctx : KeyUpStart(c)
    \/ \E c \in Ctx : KeyUpClear(c)
    \/ \E c \in Ctx : KeyUpPasteBegin(c)
    \/ \E c \in Ctx : KeyUpWriteOk(c)
    \/ \E c \in Ctx : KeyUpPasteDone(c)

SpecPair == InitPair /\ [][NextPair]_vars


\* What the plugin and the host hold for context c alone.
OfContext(c) ==
    <<settings[c], title[c], vstate[c], image[c], holdTrackers[c], trk[c],
      presses[c], kd[c], ku[c], ap[c], cl[c]>>

\* C37: a step that handles an event of one context (it moves a handler of
\* that context, runs a timer callback of it or changes its settings) leaves
\* the settings, the holdTrackers entry, the trackers with their timers, and
\* the title, state and image of every other context as they are.
C37_ContextsIndependent ==
    [][\A c \in Ctx : \A d \in Ctx \ {c} :
        OfContext(c)' # OfContext(c)
        => /\ settings'[d] = settings[d]
           /\ holdTrackers'[d] = holdTrackers[d]
           /\ trk'[d] = trk[d]
           /\ title'[d] = title[d]
           /\ vstate'[d] = vstate[d]
           /\ image'[d] = image[d]]_vars

\* The first button has been cleared by a hold and rendered while the second
\* is held down with its timer armed and its stored text in place.
C37_Witness ==
    \E c \in Ctx : \E d \in Ctx \ {c} :
        /\ ku[c].pc = "done" /\ ku[c].branch = "clear"
        /\ Truthy(ku[c].s.value) /\ ~Truthy(settings[c].value)
        /\ holdTrackers[d] # 0
        /\ trk[d][holdTrackers[d]].timer = "armed"
        /\ Truthy(settings[d].value)

\* C38: nothing keeps the clicks of two buttons apart on the clipboard: while
\* simulatePaste of one button is pending, the pbcopy of a click on another
\* button can complete, and when it does the clipboard holds the other
\* button's stored text with the first paste still pending.
C38_PasteClicksNotExcluded ==
    [][\A c \in Ctx : \A d \in Ctx \ {c} :
        (ku[c].pc = "paste" /\ ku[d].pc = "write")
        => /\ ENABLED KeyUpWriteOk(d)
           /\ ku'[d].pc = "paste"
              => clipboard' = ku[d].s.value[1] /\ ku'[c].pc = "paste"]_vars

\* The paste keystroke of one button is pending while the clipboard holds the
\* different stored text of the other button, written by its click.
C38_Witness ==
    \E c \in Ctx : \E d \in Ctx \ {c} :
        /\ ku[c].pc = "paste" /\ ku[c].branch = "paste"
        /\ ku[d].pc = "paste" /\ ku[d].branch = "paste"
        /\ settings[c].value = ku[c].s.value
        /\ settings[d].value = ku[d].s.value
        /\ clipboard = settings[d].value[1]
        /\ clipboard # settings[c].value[1]


---------------------------------------------------------------------------
\* Content of the label

\* The text s with the characters of the set drop deleted.
Without(s, drop) == SelectSeq(s, LAMBDA ch : ch \notin drop)

\* C39: for every captured text whose normalized form has at most 14
\* characters, the label without its line feed and spaces is the normalized
\* form without its spaces: no character is lost and no ellipsis is added.
C39_LabelKeepsContent ==
    \A c \in Ctx :
        (settings[c].value # None /\ Len(Normalized(settings[c].value[1])) <= 14)
        => /\ settings[c].label # None
           /\ Without(settings[c].label[1], {"\n", " "})
              = Without(Normalized(settings[c].value[1]), {" "})

\* A text of 8 to 14 characters was captured whose label is split where there
\* is no space and keeps a space on one of its lines.
C39_Witness ==
    \E c \in Ctx :
        /\ settings[c].value # None
        /\ settings[c].label # None
        /\ Len(Normalized(settings[c].value[1])) \in 8..14
        /\ LET l == settings[c].label[1]
               n == Normalized(settings[c].value[1])
           IN  /\ \E i \in 1..Len(l) : l[i] = "\n"
               /\ \E i \in 1..Len(l) : l[i] = " "
               /\ Len(l) = Len(n) + 1
               /\ Without(l, {"\n", " "}) = Without(n, {" "})

====
